---- MODULE Spec2Model ----
(***************************************************************************)
(* Model of Condor3XY2LatLon_persistent.cpp: the persistent bridge that    *)
(* loads NaviCon.dll once, prints READY and then answers "X Y" lines read  *)
(* from stdin with "LON,LAT" lines on stdout.                              *)
(*                                                                         *)
(* Strings are sequences of one-character strings; std::string positions   *)
(* are 0-based in the code and kept 0-based in FindFirstNotOf /            *)
(* FindLastNotOf / Erase / Find.  npos (the largest size_t) is written -1, *)
(* so that npos + 1 = 0 exactly as the unsigned addition on line 102 wraps.*)
(***************************************************************************)
EXTENDS Integers, Sequences, FiniteSets, TLC

\* ------------------------------------------------------------------------
\* Bounds of the model
\* ------------------------------------------------------------------------
\* number of lines on standard input before end-of-input
MaxLines == 2
\* number of lines on standard input of a session started by its client
MaxSessionLines == 3

\* ------------------------------------------------------------------------
\* Program constants
\* ------------------------------------------------------------------------
EXIT_SUCCESS == 0
EXIT_FAILURE == 1
ERROR_SUCCESS == 0
ERROR_FILE_NOT_FOUND == 2
ERROR_MORE_DATA == 234
npos == -1
\* exit code of a process ended by an access violation (0xC0000005)
STATUS_ACCESS_VIOLATION == -1073741819
\* std::setprecision(8) under std::fixed
Precision == 8
\* FLT_MAX is 3.4028235e38: 39 integer digits, leading eight 34028235
FltMaxDigits == 39
FltMaxLead == 34028235

\* ------------------------------------------------------------------------
\* std::string helpers
\* ------------------------------------------------------------------------
TrimChars == {" ", "\t", "\r", "\n"}

\* std::isspace in the classic locale, used by the istream sentry
\* (vertical tab is also white space; it has no TLA+ escape and is not used)
IsSpace(c) == c \in {" ", "\t", "\r", "\n", "\f"}

\* line.find_first_not_of(" \t\r\n"): 0-based position or npos
FindFirstNotOf(s, set) ==
    IF \E i \in 1..Len(s) : s[i] \notin set
    THEN (CHOOSE i \in 1..Len(s) :
              s[i] \notin set /\ \A j \in 1..(i-1) : s[j] \in set) - 1
    ELSE npos

\* line.find_last_not_of(" \t\r\n"): 0-based position or npos
FindLastNotOf(s, set) ==
    IF \E i \in 1..Len(s) : s[i] \notin set
    THEN (CHOOSE i \in 1..Len(s) :
              s[i] \notin set /\ \A j \in (i+1)..Len(s) : s[j] \in set) - 1
    ELSE npos

\* s.erase(pos, n): removes min(n, size - pos) characters from 0-based pos;
\* n = npos removes to the end
Erase(s, pos, n) ==
    LET cnt == IF n = npos \/ n > Len(s) - pos THEN Len(s) - pos ELSE n
    IN  SubSeq(s, 1, pos) \o SubSeq(s, pos + cnt + 1, Len(s))

\* faulty variant: only the leading white space is erased
Trim_LeadingOnly(s) == Erase(s, 0, FindFirstNotOf(s, TrimChars))

\* lines 101-102
Trim(s) ==
    LET a == Erase(s, 0, FindFirstNotOf(s, TrimChars))
    IN  Erase(a, FindLastNotOf(a, TrimChars) + 1, npos)

\* s.find(sub): 0-based position of the first occurrence or npos
Find(s, sub) ==
    LET hits == {i \in 1..(Len(s) - Len(sub) + 1) :
                     SubSeq(s, i, i + Len(sub) - 1) = sub}
    IN  IF hits = {} THEN npos
        ELSE (CHOOSE i \in hits : \A j \in hits : i <= j) - 1

\* ------------------------------------------------------------------------
\* operator>>(float): the istream sentry skips white space, then num_get
\* reads [sign] digits [. digits] [(e|E) [sign] digits]; a field with no
\* mantissa digit, an exponent with no digit, or a value out of the range of
\* float sets failbit.  A value is <<m, e>>, meaning m * 10^e, with m not a
\* multiple of 10 (or <<0, 0>>).
\* ------------------------------------------------------------------------
Digits == <<"0", "1", "2", "3", "4", "5", "6", "7", "8", "9">>
IsDigit(c) == \E d \in 1..10 : Digits[d] = c
DigitVal(c) == (CHOOSE d \in 1..10 : Digits[d] = c) - 1

RECURSIVE SkipWs(_, _)
SkipWs(s, p) ==
    IF p <= Len(s) /\ IsSpace(s[p]) THEN SkipWs(s, p + 1) ELSE p

RECURSIVE ScanDigits(_, _)
ScanDigits(s, p) ==
    IF p <= Len(s) /\ IsDigit(s[p]) THEN ScanDigits(s, p + 1) ELSE p

\* value of the digit string s[from..to-1]
RECURSIVE DigitsValue(_, _, _)
DigitsValue(s, from, to) ==
    IF from >= to THEN 0
    ELSE DigitsValue(s, from, to - 1) * 10 + DigitVal(s[to - 1])

RECURSIVE Pow10(_)
Pow10(n) == IF n <= 0 THEN 1 ELSE 10 * Pow10(n - 1)

RECURSIVE NumDigits(_)
NumDigits(m) == IF m < 10 THEN 1 ELSE 1 + NumDigits(m \div 10)

RECURSIVE Normalize(_, _)
Normalize(m, e) ==
    IF m = 0 THEN <<0, 0>>
    ELSE IF m % 10 = 0 THEN Normalize(m \div 10, e + 1)
    ELSE <<m, e>>

Abs(n) == IF n < 0 THEN -n ELSE n

\* the magnitude m * 10^e exceeds FLT_MAX (m normalised, m # 0)
OutOfRange(v) ==
    LET m == Abs(v[1])
        nd == NumDigits(m)
        lead == IF nd <= 8 THEN m * Pow10(8 - nd) ELSE m \div Pow10(nd - 8)
    IN  /\ m # 0
        /\ \/ nd + v[2] > FltMaxDigits
           \/ nd + v[2] = FltMaxDigits /\ lead > FltMaxLead

NoFloat(p) == [ok |-> FALSE, val |-> <<0, 0>>, pos |-> p]

\* the field is complete: mant has fracLen fractional digits, the exponent
\* is expVal and p is the first unread position
FinishFloat(neg, mant, fracLen, expVal, p) ==
    LET val == Normalize(IF neg THEN -mant ELSE mant, expVal - fracLen)
    IN  IF OutOfRange(val) THEN NoFloat(p)
        ELSE [ok |-> TRUE, val |-> val, pos |-> p]

\* the exponent digits start at p6
ScanExpDigits(s, neg, mant, fracLen, expNeg, p6) ==
    LET p7 == ScanDigits(s, p6)
        expAbs == DigitsValue(s, p6, p7)
    IN  IF p7 = p6 THEN NoFloat(p7)
        ELSE FinishFloat(neg, mant, fracLen,
                         IF expNeg THEN -expAbs ELSE expAbs, p7)

\* the mantissa ended at p4
ScanExponent(s, neg, mant, fracLen, p4) ==
    IF p4 <= Len(s) /\ s[p4] \in {"e", "E"}
    THEN IF p4 + 1 <= Len(s) /\ s[p4 + 1] \in {"+", "-"}
         THEN ScanExpDigits(s, neg, mant, fracLen, s[p4 + 1] = "-", p4 + 2)
         ELSE ScanExpDigits(s, neg, mant, fracLen, FALSE, p4 + 1)
    ELSE FinishFloat(neg, mant, fracLen, 0, p4)

\* the integer digits are s[p1..p2-1]
ScanFraction(s, neg, p1, p2) ==
    LET p3 == IF p2 <= Len(s) /\ s[p2] = "." THEN p2 + 1 ELSE p2
        p4 == ScanDigits(s, p3)
        mant == DigitsValue(s, p1, p2) * Pow10(p4 - p3) + DigitsValue(s, p3, p4)
    IN  IF p2 = p1 /\ p4 = p3 THEN NoFloat(p4)
        ELSE ScanExponent(s, neg, mant, p4 - p3, p4)

\* the field starts at p0, after the white space
ScanField(s, p0) ==
    IF p0 > Len(s) THEN NoFloat(p0)
    ELSE IF s[p0] \in {"+", "-"}
         THEN ScanFraction(s, s[p0] = "-", p0 + 1, ScanDigits(s, p0 + 1))
         ELSE ScanFraction(s, FALSE, p0, ScanDigits(s, p0))

\* one extraction starting at 1-based position p of s:
\* [ok, val, pos] with pos the position of the first unread character
ExtractFloat(s, p) == ScanField(s, SkipWs(s, p))

\* faulty variant: iss >> x only, y taken from x
ExtractXY_FirstOnly(s) ==
    LET a == ExtractFloat(s, 1)
    IN  [ok |-> a.ok, x |-> a.val, y |-> a.val]

\* faulty variant: anything but white space after the second number fails
\* the extraction
ExtractXY_Strict(s) ==
    LET a == ExtractFloat(s, 1)
        b == ExtractFloat(s, a.pos)
    IN  IF ~a.ok THEN [ok |-> FALSE, x |-> <<0, 0>>, y |-> <<0, 0>>]
        ELSE IF ~b.ok THEN [ok |-> FALSE, x |-> a.val, y |-> <<0, 0>>]
        ELSE [ok |-> SkipWs(s, b.pos) > Len(s), x |-> a.val, y |-> b.val]

\* iss >> x >> y (line 115): the second extraction runs only if the first
\* one succeeded
ExtractXY(s) ==
    LET a == ExtractFloat(s, 1)
        b == ExtractFloat(s, a.pos)
    IN  IF ~a.ok THEN [ok |-> FALSE, x |-> <<0, 0>>, y |-> <<0, 0>>]
        ELSE IF ~b.ok THEN [ok |-> FALSE, x |-> a.val, y |-> <<0, 0>>]
        ELSE [ok |-> TRUE, x |-> a.val, y |-> b.val]

\* ------------------------------------------------------------------------
\* Output formatting (line 126): std::fixed << std::setprecision(8)
\* A float returned by the library is [neg, ip, fr]: sign, integer part and
\* the first nine fractional digits (fr < 10^9).
\* ------------------------------------------------------------------------
RECURSIVE IntToChars(_)
IntToChars(n) ==
    IF n < 10 THEN <<Digits[n + 1]>>
    ELSE Append(IntToChars(n \div 10), Digits[(n % 10) + 1])

\* n written with exactly w digits, zero padded (n < 10^w)
RECURSIVE PadDigits(_, _)
PadDigits(n, w) ==
    IF w = 0 THEN <<>>
    ELSE Append(PadDigits(n \div 10, w - 1), Digits[(n % 10) + 1])

\* "." and the fraction digits, nothing when there are none
PointAnd(frac) == IF frac = <<>> THEN <<>> ELSE <<".">> \o frac

\* fixed notation with p fractional digits, rounded to nearest; v carries
\* nine fractional digits, further ones are zeros
FormatFixedAt(v, p) ==
    LET scale == Pow10(9 - p)
        r == (v.fr + (scale \div 2)) \div scale
        carry == IF p <= 9 THEN r \div Pow10(p) ELSE 0
        frac == IF p <= 9 THEN PadDigits(r % Pow10(p), p)
                ELSE PadDigits(v.fr, 9) \o PadDigits(0, p - 9)
    IN  (IF v.neg THEN <<"-">> ELSE <<>>)
        \o IntToChars(v.ip + carry)
        \o PointAnd(frac)

\* fixed notation with Precision fractional digits
FormatFixed(v) == FormatFixedAt(v, Precision)

\* the formatting state of std::cout before any manipulator is applied:
\* floatfield unset, precision 6
DefaultFormat == [fixed |-> FALSE, precision |-> 6]

\* std::fixed << std::setprecision(8) applied to the formatting state
SetFixedPrecision(fmt) == [fmt EXCEPT !.fixed = TRUE, !.precision = Precision]

\* s without its trailing "0" characters
RECURSIVE StripZeros(_)
StripZeros(s) ==
    IF s # <<>> /\ s[Len(s)] = "0" THEN StripZeros(SubSeq(s, 1, Len(s) - 1))
    ELSE s

\* the position of the first character of s that is not "0", from p on
RECURSIVE SkipZeros(_, _)
SkipZeros(s, p) ==
    IF p <= Len(s) /\ s[p] = "0" THEN SkipZeros(s, p + 1) ELSE p

\* the first p significant digits (p <= 9) of the digit string s, rounded to
\* nearest, and the decimal exponent of the first one; s has a non-zero
\* digit and holds the value scaled by 10^9
Significant(s, p) ==
    LET first == SkipZeros(s, 1)
        avail == Len(s) - first + 1
        taken == IF avail < p THEN avail ELSE p
        q0 == DigitsValue(s, first, first + taken) * Pow10(p - taken)
        up == avail > p /\ DigitVal(s[first + p]) >= 5
        q == IF up THEN q0 + 1 ELSE q0
        e == Len(s) - 9 - first
    IN  IF q = Pow10(p)
        THEN [digits |-> PadDigits(Pow10(p - 1), p), exp |-> e + 1]
        ELSE [digits |-> PadDigits(q, p), exp |-> e]

\* d.ddde+XX
FormatScientific(sg) ==
    <<sg.digits[1]>>
    \o PointAnd(StripZeros(SubSeq(sg.digits, 2, Len(sg.digits))))
    \o <<"e", IF sg.exp < 0 THEN "-" ELSE "+">>
    \o PadDigits(Abs(sg.exp), IF Abs(sg.exp) < 100 THEN 2 ELSE 3)

\* the digits of sg with the point placed by its exponent, -5 < exp < p
FormatPlain(sg) ==
    IF sg.exp >= 0
    THEN SubSeq(sg.digits, 1, sg.exp + 1)
         \o PointAnd(StripZeros(SubSeq(sg.digits, sg.exp + 2, Len(sg.digits))))
    ELSE <<"0">>
         \o PointAnd(PadDigits(0, -sg.exp - 1) \o StripZeros(sg.digits))

\* the notation of an unset floatfield (printf %g) with precision p >= 1
FormatGeneral(v, p) ==
    LET s == IntToChars(v.ip) \o PadDigits(v.fr, 9)
        sg == Significant(s, p)
    IN  (IF v.neg THEN <<"-">> ELSE <<>>)
        \o (IF v.ip = 0 /\ v.fr = 0 THEN <<"0">>
            ELSE IF sg.exp < -4 \/ sg.exp >= p THEN FormatScientific(sg)
            ELSE FormatPlain(sg))

\* operator<<(float) under the formatting state fmt
FormatFloat(fmt, v) ==
    IF fmt.fixed THEN FormatFixedAt(v, fmt.precision)
    ELSE FormatGeneral(v, IF fmt.precision = 0 THEN 1 ELSE fmt.precision)

\* faulty variant: latitude written first
FormatResult_Swapped(fmt, lon, lat) ==
    FormatFloat(fmt, lat) \o <<",">> \o FormatFloat(fmt, lon)

\* lon << "," << lat
FormatResult(fmt, lon, lat) ==
    FormatFloat(fmt, lon) \o <<",">> \o FormatFloat(fmt, lat)

READY_LINE == <<"R", "E", "A", "D", "Y">>
ERROR_LINE == <<"E", "R", "R", "O", "R", ":", " ", "I", "n", "v", "a", "l",
                "i", "d", " ", "i", "n", "p", "u", "t", " ", "f", "o", "r",
                "m", "a", "t">>
EXIT_TOKEN == <<"E", "X", "I", "T">>

\* ------------------------------------------------------------------------
\* NaviCon.dll: an external library, a black box to the program.  Its two
\* conversion functions are functions of (x, y) and of the terrain the
\* library was initialised with; the tables stand for its results.
\* ------------------------------------------------------------------------
FloatTable ==
    << [neg |-> FALSE, ip |-> 5,  fr |-> 990100004],
       [neg |-> FALSE, ip |-> 44, fr |-> 55499996],
       [neg |-> TRUE,  ip |-> 0,  fr |-> 4],
       [neg |-> FALSE, ip |-> 9,  fr |-> 999999996],
       [neg |-> TRUE,  ip |-> 122, fr |-> 500000001],
       [neg |-> FALSE, ip |-> 0,  fr |-> 0],
       [neg |-> FALSE, ip |-> 179, fr |-> 123456789] >>

Mix(ctx, x, y, salt) ==
    ((Abs(x[1]) * 3 + Abs(x[2]) * 5 + Abs(y[1]) * 2 + Abs(y[2]) * 4
      + (IF x[1] < 0 THEN 1 ELSE 0) + (IF y[1] < 0 THEN 3 ELSE 0)
      + Len(ctx) + salt) % Len(FloatTable)) + 1

\* float __stdcall XYToLon(float, float)
XYToLon(ctx, x, y) == FloatTable[Mix(ctx, x, y, 0)]
\* float __stdcall XYToLat(float, float)
XYToLat(ctx, x, y) == FloatTable[Mix(ctx, x, y, 3)]

\* ------------------------------------------------------------------------
\* Inputs of a run
\* ------------------------------------------------------------------------
L_EMPTY == <<>>
L_BLANK == <<" ", "\t", "\r">>
L_EXIT == <<"E", "X", "I", "T">>
L_EXIT_WS == <<" ", "E", "X", "I", "T", "\r">>
L_EXIT_LOWER == <<"e", "x", "i", "t">>
L_EXIT_NOW == <<"E", "X", "I", "T", " ", "n", "o", "w">>
L_XY == <<"1", " ", "2">>
L_XY_SCI == <<"-", "1", ".", "5", "\t", "2", "e", "1", " ">>
L_XYZ == <<"1", " ", "2", " ", "3">>
L_XY_JUNK == <<"1", " ", "2", "x">>
L_GLUED == <<"1", "-", "2">>
L_WORDS == <<"a", "b", "c", " ", "d", "e", "f">>
L_ONE == <<"1">>
L_ONE_WORD == <<"1", " ", "x">>
L_HUGE == <<"1", "e", "3", "9", " ", "1">>
L_FORMFEED == <<"\f">>

Corpus ==
    { L_EMPTY, L_BLANK, L_EXIT, L_EXIT_WS, L_EXIT_LOWER, L_EXIT_NOW,
      L_XY, L_XY_SCI, L_XYZ, L_XY_JUNK, L_GLUED, L_WORDS, L_ONE,
      L_ONE_WORD, L_HUGE, L_FORMFEED }

\* further lines of a session: the coordinates of L_XY spelt differently,
\* the exit word in other spellings and after two numbers
L_XY_ALT == <<"1", "e", "0", " ", "2", ".">>
L_XY_EXIT == <<"1", " ", "2", " ", "E", "X", "I", "T">>
L_EXIT_CAP == <<"E", "x", "i", "t">>
L_EXIT_EXIT == <<"E", "X", "I", "T", " ", "E", "X", "I", "T">>

SessionCorpus ==
    { L_BLANK, L_EXIT, L_EXIT_LOWER, L_EXIT_CAP, L_EXIT_NOW, L_EXIT_EXIT,
      L_XY, L_XY_ALT, L_XY_SCI, L_XY_EXIT }

\* the sequences over S of length at most n
SeqsUpTo(S, n) == UNION {[1..k -> S] : k \in 0..n}

\* iss >> x >> y on each trimmed line of the corpus, evaluated once
ParsedCorpus ==
    [l \in {Trim(c) : c \in Corpus \cup SessionCorpus} |-> ExtractXY(l)]

\* lines 113-115: std::istringstream iss(line); iss >> x >> y
ParseOf(l) == IF l \in DOMAIN ParsedCorpus THEN ParsedCorpus[l] ELSE ExtractXY(l)

\* argv[1]: a scenery name, a .trn file name, a path with a separator
A_NAME == <<"A", "A", "3">>
A_TRN == <<"A", ".", "t", "r", "n">>
A_PATH == <<"s", "\\", "A">>
ArgValues == {A_NAME, A_TRN, A_PATH}

\* InstallDir as stored in the registry
ROOT_DIR == <<"C", ":", "\\", "C", "3">>

NUL == "NUL"
\* what RegGetValueA stores in buffer, and the size it reports
REG_VALUE == Append(ROOT_DIR, NUL)

DLL_NAME == <<"N", "a", "v", "i", "C", "o", "n", ".", "d", "l", "l">>
LANDSCAPES == <<"\\", "L", "a", "n", "d", "s", "c", "a", "p", "e", "s", "\\">>
TRN_EXT == <<".", "t", "r", "n">>

\* LSTATUS values RegGetValueA can return here
RegResults == {ERROR_SUCCESS, ERROR_FILE_NOT_FOUND, ERROR_MORE_DATA}
\* int values NaviConInit can return
InitReturns == {0, 1}

\* argc and argv[1] of an invocation
Invocations ==
    {[argc |-> 1, argv1 |-> <<>>], [argc |-> 3, argv1 |-> A_NAME]}
    \cup {[argc |-> 2, argv1 |-> a] : a \in ArgValues}

ZeroFloat == [neg |-> FALSE, ip |-> 0, fr |-> 0]

\* ------------------------------------------------------------------------
\* State
\* ------------------------------------------------------------------------
VARIABLES
    pc,             \* position in main
    argc, argv1,    \* the invocation
    rc,             \* result of RegGetValueA
    root_dir,
    hGetProcIDDLL,  \* TRUE when the module handle is not NULL
    f_init, f_xy2lon, f_xy2lat,   \* TRUE when the pointer is not NULL
    trn_name,
    init_ret,
    line, x, y, lon, lat,         \* the loop's locals
    stdin,          \* the lines not yet read
    cout_buf,       \* characters written to std::cout and not yet flushed
    cout_fmt,       \* the formatting state of std::cout (floatfield, precision)
    stdout,         \* the lines that have reached standard output
    stderr,         \* the diagnostics
    exit_status,    \* <<>> while the process runs, <<code>> once it has exited
    navicon,        \* the terrain the library was initialised with
    input,          \* history: the whole of standard input
    events          \* history: library calls, reads and writes, in order

vars == <<pc, argc, argv1, rc, root_dir, hGetProcIDDLL, f_init, f_xy2lon,
          f_xy2lat, trn_name, init_ret, line, x, y, lon, lat, stdin,
          cout_buf, cout_fmt, stdout, stderr, exit_status, navicon, input,
          events>>

startup == <<rc, root_dir, hGetProcIDDLL, f_init, f_xy2lon, f_xy2lat,
             trn_name, init_ret, navicon>>
locals == <<line, x, y, lon, lat>>
streams == <<stdin, cout_buf, cout_fmt, stdout, stderr>>
fixed == <<argc, argv1, input>>

\* the process as main is entered, invoked as inv with lines on its
\* standard input
Start(inv, lines) ==
    /\ pc = "main"
    /\ argc = inv.argc /\ argv1 = inv.argv1
    /\ rc = ERROR_SUCCESS
    /\ root_dir = <<>>
    /\ hGetProcIDDLL = FALSE
    /\ f_init = FALSE /\ f_xy2lon = FALSE /\ f_xy2lat = FALSE
    /\ trn_name = <<>>
    /\ init_ret = 0
    /\ line = <<>>
    /\ x = <<0, 0>> /\ y = <<0, 0>>
    /\ lon = ZeroFloat /\ lat = ZeroFloat
    /\ stdin = lines
    /\ cout_buf = <<>>
    /\ cout_fmt = DefaultFormat
    /\ stdout = <<>>
    /\ stderr = <<>>
    /\ exit_status = <<>>
    /\ navicon = <<>>
    /\ input = lines
    /\ events = <<>>

Init ==
    \E inv \in Invocations, lines \in SeqsUpTo(Corpus, MaxLines) :
        Start(inv, lines)

\* a session of the server as its client starts it: one scenery name on the
\* command line, up to MaxSessionLines lines on standard input
SessionInit ==
    \E lines \in SeqsUpTo(SessionCorpus, MaxSessionLines) :
        Start([argc |-> 2, argv1 |-> A_NAME], lines)

\* faulty variant: the line is put in front of what was already written
WriteLineFlush_Front(buf, out, text) ==
    [buf |-> <<>>, out |-> <<text>> \o out \o buf]

\* faulty variant: the line ends with "\n" instead of std::endl and stays in
\* the buffer
WriteLineFlush_NoFlush(buf, out, text) ==
    [buf |-> Append(buf, text), out |-> out]

\* std::cout << text << std::endl: the text and a newline go to the buffer,
\* then the buffer is flushed; [buf, out] are the new cout_buf and stdout
WriteLineFlush(buf, out, text) ==
    [buf |-> <<>>, out |-> out \o buf \o <<text>>]

\* return EXIT_FAILURE from main
Fail(msgs) ==
    /\ stderr' = stderr \o msgs
    /\ stdout' = stdout \o cout_buf
    /\ cout_buf' = <<>>
    /\ exit_status' = <<EXIT_FAILURE>>
    /\ pc' = "exited"
    /\ UNCHANGED <<stdin, cout_fmt>>

\* lines 35-40
CheckArgs ==
    /\ pc = "main"
    /\ IF argc # 2
       THEN Fail(<<<<"Usage">>, <<"Example">>, <<"Or">>>>)
       ELSE pc' = "reg" /\ UNCHANGED <<streams, exit_status>>
    /\ UNCHANGED <<startup, locals, fixed, events>>

\* lines 42-52
RegGetValue ==
    /\ pc = "reg"
    /\ \E r \in RegResults :
         /\ rc' = r
         /\ IF r # ERROR_SUCCESS
            THEN /\ Fail(<<<<"ERROR: Could not find Condor3 installation directory in registry">>>>)
                 /\ UNCHANGED root_dir
            ELSE /\ LET buffer == REG_VALUE
                        buffer_size == Len(REG_VALUE)
                    IN  root_dir' = SubSeq(buffer, 1, buffer_size - 1)
                 /\ pc' = "load"
                 /\ UNCHANGED <<streams, exit_status>>
    /\ UNCHANGED <<hGetProcIDDLL, f_init, f_xy2lon, f_xy2lat, trn_name,
                   init_ret, navicon, locals, fixed, events>>

\* lines 54-61
LoadLibrary ==
    /\ pc = "load"
    /\ \E h \in BOOLEAN :
         /\ hGetProcIDDLL' = h
         /\ IF ~h
            THEN LET dll_path == root_dir \o <<"\\">> \o DLL_NAME
                 IN  Fail(<<<<"ERROR: Could not load ", dll_path>>>>)
            ELSE pc' = "getproc" /\ UNCHANGED <<streams, exit_status>>
    /\ UNCHANGED <<rc, root_dir, f_init, f_xy2lon, f_xy2lat, trn_name,
                   init_ret, navicon, locals, fixed, events>>

\* faulty variant: only the initializer's pointer is checked
GetProcs_InitOnly ==
    /\ pc = "getproc"
    /\ \E i \in BOOLEAN, a \in BOOLEAN, b \in BOOLEAN :
         /\ f_init' = i /\ f_xy2lon' = a /\ f_xy2lat' = b
         /\ IF ~i
            THEN Fail(<<<<"ERROR: Could not get NaviCon.dll function pointers">>>>)
            ELSE pc' = "trn" /\ UNCHANGED <<streams, exit_status>>
    /\ UNCHANGED <<rc, root_dir, hGetProcIDDLL, trn_name, init_ret, navicon,
                   locals, fixed, events>>

\* faulty variant: the pointers are used as GetProcAddress returned them,
\* without the test of line 68
GetProcs_NoCheck ==
    /\ pc = "getproc"
    /\ \E i \in BOOLEAN, a \in BOOLEAN, b \in BOOLEAN :
         /\ f_init' = i /\ f_xy2lon' = a /\ f_xy2lat' = b
         /\ pc' = "trn" /\ UNCHANGED <<streams, exit_status>>
    /\ UNCHANGED <<rc, root_dir, hGetProcIDDLL, trn_name, init_ret, navicon,
                   locals, fixed, events>>

\* lines 63-71
GetProcs ==
    /\ pc = "getproc"
    /\ \E i \in BOOLEAN, a \in BOOLEAN, b \in BOOLEAN :
         /\ f_init' = i /\ f_xy2lon' = a /\ f_xy2lat' = b
         /\ IF ~i \/ ~a \/ ~b
            THEN Fail(<<<<"ERROR: Could not get NaviCon.dll function pointers">>>>)
            ELSE pc' = "trn" /\ UNCHANGED <<streams, exit_status>>
    /\ UNCHANGED <<rc, root_dir, hGetProcIDDLL, trn_name, init_ret, navicon,
                   locals, fixed, events>>

\* lines 73-84
DetermineTrn ==
    /\ pc = "trn"
    /\ LET input1 == argv1
           is_trn_path == \/ Find(input1, TRN_EXT) # npos
                          \/ Find(input1, <<"\\">>) # npos
                          \/ Find(input1, <<"/">>) # npos
       IN  trn_name' = IF is_trn_path
                       THEN input1
                       ELSE root_dir \o LANDSCAPES \o input1 \o <<"\\">>
                            \o input1 \o TRN_EXT
    /\ pc' = "init"
    /\ UNCHANGED <<rc, root_dir, hGetProcIDDLL, f_init, f_xy2lon, f_xy2lat,
                   init_ret, navicon, locals, streams, exit_status, fixed,
                   events>>

\* a call through a NULL function pointer ends the process
Crash ==
    /\ pc' = "exited"
    /\ exit_status' = <<STATUS_ACCESS_VIOLATION>>
    /\ UNCHANGED <<startup, locals, streams, fixed, events>>

\* faulty variant: the value NaviConInit returns is not checked
CallInit_Unchecked ==
    /\ pc = "init"
    /\ IF ~f_init THEN Crash
       ELSE \E r \in InitReturns :
              /\ init_ret' = r
              /\ navicon' = IF r # 0 THEN trn_name ELSE navicon
              /\ events' = Append(events, [ev |-> "init", arg |-> trn_name, ret |-> r])
              /\ pc' = "ready" /\ UNCHANGED <<streams, exit_status>>
              /\ UNCHANGED <<rc, root_dir, hGetProcIDDLL, f_init, f_xy2lon,
                             f_xy2lat, trn_name, locals, fixed>>

\* lines 86-91
CallInit ==
    /\ pc = "init"
    /\ IF ~f_init THEN Crash
       ELSE \E r \in InitReturns :
              /\ init_ret' = r
              /\ navicon' = IF r # 0 THEN trn_name ELSE navicon
              /\ events' = Append(events, [ev |-> "init", arg |-> trn_name, ret |-> r])
              /\ IF r = 0
                 THEN Fail(<<<<"ERROR: NaviConInit failed for ", trn_name>>>>)
                 ELSE pc' = "ready" /\ UNCHANGED <<streams, exit_status>>
              /\ UNCHANGED <<rc, root_dir, hGetProcIDDLL, f_init, f_xy2lon,
                             f_xy2lat, trn_name, locals, fixed>>

\* faulty variant: READY written with "\n" instead of std::endl, never flushed
EmitReady_NoFlush ==
    /\ pc = "ready"
    /\ cout_buf' = Append(cout_buf, READY_LINE)
    /\ stdout' = stdout
    /\ events' = Append(events, [ev |-> "out", text |-> READY_LINE])
    /\ pc' = "getline"
    /\ UNCHANGED <<startup, locals, stdin, cout_fmt, stderr, exit_status, fixed>>

\* lines 93-95
EmitReady ==
    /\ pc = "ready"
    /\ LET w == WriteLineFlush(cout_buf, stdout, READY_LINE)
       IN  cout_buf' = w.buf /\ stdout' = w.out
    /\ events' = Append(events, [ev |-> "out", text |-> READY_LINE])
    /\ pc' = "getline"
    /\ UNCHANGED <<startup, locals, stdin, cout_fmt, stderr, exit_status, fixed>>

\* line 99: std::getline(std::cin, line)
GetLine ==
    /\ pc = "getline"
    /\ IF stdin # <<>>
       THEN /\ line' = Head(stdin)
            /\ stdin' = Tail(stdin)
            /\ events' = Append(events, [ev |-> "read", text |-> Head(stdin)])
            /\ pc' = "trim"
       ELSE /\ line' = <<>>
            /\ stdin' = stdin
            /\ events' = Append(events, [ev |-> "eof"])
            /\ pc' = "return"
    /\ UNCHANGED <<startup, x, y, lon, lat, cout_buf, cout_fmt, stdout,
                   stderr, exit_status, fixed>>

\* lines 100-102
TrimLine ==
    /\ pc = "trim"
    /\ line' = Trim(line)
    /\ pc' = "dispatch"
    /\ UNCHANGED <<startup, x, y, lon, lat, streams, exit_status, fixed, events>>

\* faulty variant: a blank line leaves the loop (break instead of continue)
SkipBlank_Break ==
    /\ pc = "dispatch"
    /\ line = <<>>
    /\ pc' = "return"
    /\ UNCHANGED <<startup, locals, streams, exit_status, fixed, events>>

\* lines 104-106
SkipBlank ==
    /\ pc = "dispatch"
    /\ line = <<>>
    /\ pc' = "getline"
    /\ UNCHANGED <<startup, locals, streams, exit_status, fixed, events>>

\* the letters of the exit word in upper case, any other character as it is
UpperChar(c) ==
    CASE c = "e" -> "E" [] c = "x" -> "X" [] c = "i" -> "I" [] c = "t" -> "T"
      [] OTHER -> c
Upper(s) == [i \in 1..Len(s) |-> UpperChar(s[i])]

\* faulty variant: the exit word is compared without regard to case
ExitCommand_AnyCase ==
    /\ pc = "dispatch"
    /\ line # <<>>
    /\ Upper(line) = EXIT_TOKEN
    /\ pc' = "return"
    /\ UNCHANGED <<startup, locals, streams, exit_status, fixed, events>>

\* faulty variant: EXIT is tested after the parse, so that it gets the
\* ERROR line before the loop is left
ExitCommand_AfterParse ==
    /\ pc = "dispatch"
    /\ line # <<>>
    /\ line = EXIT_TOKEN
    /\ LET w == WriteLineFlush(cout_buf, stdout, ERROR_LINE)
       IN  cout_buf' = w.buf /\ stdout' = w.out
    /\ events' = Append(events, [ev |-> "out", text |-> ERROR_LINE])
    /\ pc' = "return"
    /\ UNCHANGED <<startup, locals, stdin, cout_fmt, stderr, exit_status, fixed>>

\* lines 108-110
ExitCommand ==
    /\ pc = "dispatch"
    /\ line # <<>>
    /\ line = EXIT_TOKEN
    /\ pc' = "return"
    /\ UNCHANGED <<startup, locals, streams, exit_status, fixed, events>>

\* faulty variant: a line that does not parse is dropped without a response
ParseLine_Silent ==
    /\ pc = "dispatch"
    /\ line # <<>>
    /\ line # EXIT_TOKEN
    /\ LET r == ParseOf(line)
       IN  IF ~r.ok
           THEN /\ pc' = "getline"
                /\ UNCHANGED <<x, y, cout_buf, stdout, events>>
           ELSE /\ x' = r.x /\ y' = r.y
                /\ pc' = "lon"
                /\ UNCHANGED <<cout_buf, stdout, events>>
    /\ UNCHANGED <<startup, line, lon, lat, stdin, cout_fmt, stderr,
                   exit_status, fixed>>

\* faulty variant: a line that does not parse ends the loop after its
\* ERROR line (break instead of continue)
ParseLine_Break ==
    /\ pc = "dispatch"
    /\ line # <<>>
    /\ line # EXIT_TOKEN
    /\ LET r == ParseOf(line)
       IN  IF ~r.ok
           THEN /\ LET w == WriteLineFlush(cout_buf, stdout, ERROR_LINE)
                   IN  cout_buf' = w.buf /\ stdout' = w.out
                /\ events' = Append(events, [ev |-> "out", text |-> ERROR_LINE])
                /\ pc' = "return"
                /\ UNCHANGED <<x, y>>
           ELSE /\ x' = r.x /\ y' = r.y
                /\ pc' = "lon"
                /\ UNCHANGED <<cout_buf, stdout, events>>
    /\ UNCHANGED <<startup, line, lon, lat, stdin, cout_fmt, stderr,
                   exit_status, fixed>>

\* lines 112-119
ParseLine ==
    /\ pc = "dispatch"
    /\ line # <<>>
    /\ line # EXIT_TOKEN
    /\ LET r == ParseOf(line)
       IN  IF ~r.ok
           THEN /\ LET w == WriteLineFlush(cout_buf, stdout, ERROR_LINE)
                   IN  cout_buf' = w.buf /\ stdout' = w.out
                /\ events' = Append(events, [ev |-> "out", text |-> ERROR_LINE])
                /\ pc' = "getline"
                /\ UNCHANGED <<x, y>>
           ELSE /\ x' = r.x /\ y' = r.y
                /\ pc' = "lon"
                /\ UNCHANGED <<cout_buf, stdout, events>>
    /\ UNCHANGED <<startup, line, lon, lat, stdin, cout_fmt, stderr,
                   exit_status, fixed>>

\* line 122
CallLon ==
    /\ pc = "lon"
    /\ IF ~f_xy2lon THEN Crash
       ELSE /\ lon' = XYToLon(navicon, x, y)
            /\ events' = Append(events, [ev |-> "lon", x |-> x, y |-> y,
                                         ret |-> XYToLon(navicon, x, y)])
            /\ pc' = "lat"
            /\ UNCHANGED <<startup, line, x, y, lat, streams, exit_status, fixed>>

\* faulty variant: the arguments are passed in the wrong order, f_xy2lat(y, x)
CallLat_Swapped ==
    /\ pc = "lat"
    /\ IF ~f_xy2lat THEN Crash
       ELSE /\ lat' = XYToLat(navicon, y, x)
            /\ events' = Append(events, [ev |-> "lat", x |-> y, y |-> x,
                                         ret |-> XYToLat(navicon, y, x)])
            /\ pc' = "emit"
            /\ UNCHANGED <<startup, line, x, y, lon, streams, exit_status, fixed>>

\* line 123
CallLat ==
    /\ pc = "lat"
    /\ IF ~f_xy2lat THEN Crash
       ELSE /\ lat' = XYToLat(navicon, x, y)
            /\ events' = Append(events, [ev |-> "lat", x |-> x, y |-> y,
                                         ret |-> XYToLat(navicon, x, y)])
            /\ pc' = "emit"
            /\ UNCHANGED <<startup, line, x, y, lon, streams, exit_status, fixed>>

\* faulty variant: lon is written before the manipulators are applied
\* (std::cout << lon << std::fixed << std::setprecision(8) << "," << lat)
EmitResult_LateManipulators ==
    /\ pc = "emit"
    /\ LET fmt == SetFixedPrecision(cout_fmt)
           text == FormatFloat(cout_fmt, lon) \o <<",">> \o FormatFloat(fmt, lat)
           w == WriteLineFlush(cout_buf, stdout, text)
       IN  /\ cout_fmt' = fmt
           /\ cout_buf' = w.buf /\ stdout' = w.out
           /\ events' = Append(events, [ev |-> "out", text |-> text])
    /\ x' = <<0, 0>> /\ y' = <<0, 0>>
    /\ lon' = ZeroFloat /\ lat' = ZeroFloat
    /\ pc' = "getline"
    /\ UNCHANGED <<startup, line, stdin, stderr, exit_status, fixed>>

\* lines 125-128; x, y, lon and lat go out of scope at the end of the
\* iteration
EmitResult ==
    /\ pc = "emit"
    /\ LET fmt == SetFixedPrecision(cout_fmt)
           text == FormatResult(fmt, lon, lat)
           w == WriteLineFlush(cout_buf, stdout, text)
       IN  /\ cout_fmt' = fmt
           /\ cout_buf' = w.buf /\ stdout' = w.out
           /\ events' = Append(events, [ev |-> "out", text |-> text])
    /\ x' = <<0, 0>> /\ y' = <<0, 0>>
    /\ lon' = ZeroFloat /\ lat' = ZeroFloat
    /\ pc' = "getline"
    /\ UNCHANGED <<startup, line, stdin, stderr, exit_status, fixed>>

\* faulty variant: main returns EXIT_FAILURE after the loop
ReturnSuccess_Failure ==
    /\ pc = "return"
    /\ stdout' = stdout \o cout_buf
    /\ cout_buf' = <<>>
    /\ exit_status' = <<EXIT_FAILURE>>
    /\ pc' = "exited"
    /\ UNCHANGED <<startup, locals, stdin, cout_fmt, stderr, fixed, events>>

\* line 130; std::cout is flushed when the process exits
ReturnSuccess ==
    /\ pc = "return"
    /\ stdout' = stdout \o cout_buf
    /\ cout_buf' = <<>>
    /\ exit_status' = <<EXIT_SUCCESS>>
    /\ pc' = "exited"
    /\ UNCHANGED <<startup, locals, stdin, cout_fmt, stderr, fixed, events>>

Next ==
    \/ CheckArgs
    \/ RegGetValue
    \/ LoadLibrary
    \/ GetProcs
    \/ DetermineTrn
    \/ CallInit
    \/ EmitReady
    \/ GetLine
    \/ TrimLine
    \/ SkipBlank
    \/ ExitCommand
    \/ ParseLine
    \/ CallLon
    \/ CallLat
    \/ EmitResult
    \/ ReturnSuccess

Spec == Init /\ [][Next]_vars

SessionSpec == SessionInit /\ [][Next]_vars

\* the single thread of main always takes its next step, and every call
\* into the library returns
FairSpec == Spec /\ WF_vars(Next)

TypeOK ==
    /\ pc \in {"main", "reg", "load", "getproc", "trn", "init", "ready",
               "getline", "trim", "dispatch", "lon", "lat", "emit",
               "return", "exited"}
    /\ argc \in 1..3
    /\ rc \in RegResults
    /\ hGetProcIDDLL \in BOOLEAN
    /\ f_init \in BOOLEAN /\ f_xy2lon \in BOOLEAN /\ f_xy2lat \in BOOLEAN
    /\ init_ret \in InitReturns
    /\ Len(stdin) <= Len(input)
    /\ cout_buf = <<>>
    /\ cout_fmt \in {DefaultFormat, SetFixedPrecision(DefaultFormat)}
    /\ Len(exit_status) <= 1

\* ------------------------------------------------------------------------
\* Vocabulary of the properties, stated on the text of the input lines
\* ------------------------------------------------------------------------
\* a line that is empty or holds only space, tab, CR, LF
IsBlank(l) == \A i \in 1..Len(l) : l[i] \in TrimChars

\* a line that is the token EXIT, surrounded by nothing but space, tab, CR, LF
IsExit(l) ==
    \E i \in 1..(Len(l) - 3) :
        /\ SubSeq(l, i, i + 3) = EXIT_TOKEN
        /\ \A j \in 1..(i - 1) : l[j] \in TrimChars
        /\ \A j \in (i + 4)..Len(l) : l[j] \in TrimChars

\* the white-space separated tokens of s, from position p on
RECURSIVE TokensFrom(_, _)
TokensFrom(s, p) ==
    IF p > Len(s) THEN <<>>
    ELSE IF IsSpace(s[p]) THEN TokensFrom(s, p + 1)
    ELSE LET ends == {q \in p..Len(s) : q = Len(s) \/ IsSpace(s[q + 1])}
             q == CHOOSE e \in ends : \A f \in ends : e <= f
         IN  <<SubSeq(s, p, q)>> \o TokensFrom(s, q + 1)

Tokens(s) == TokensFrom(s, 1)

\* the token is, as a whole, a number that fits a float
NumericToken(t) ==
    ExtractFloat(t, 1).ok /\ ExtractFloat(t, 1).pos = Len(t) + 1
\* the token starts with such a number
NumericPrefix(t) == ExtractFloat(t, 1).ok

\* number of lines read so far, and the lines read
nRead == Len(input) - Len(stdin)
Consumed == SubSeq(input, 1, nRead)

\* index of the first EXIT line of inp, or Len(inp) when there is none
FirstExitOrLen(inp) ==
    IF \E i \in 1..Len(inp) : IsExit(inp[i])
    THEN CHOOSE i \in 1..Len(inp) :
             IsExit(inp[i]) /\ \A j \in 1..(i - 1) : ~IsExit(inp[j])
    ELSE Len(inp)

EventsOf(kind) == {i \in 1..Len(events) : events[i].ev = kind}
ConversionCalls == EventsOf("lon") \cup EventsOf("lat")

\* position in events of the k-th read
ReadPos(k) ==
    CHOOSE i \in EventsOf("read") :
        Cardinality({j \in EventsOf("read") : j <= i}) = k

\* position of the first read or end-of-input after position i
SegEnd(i) ==
    LET later == {j \in EventsOf("read") \cup EventsOf("eof") : j > i}
    IN  IF later = {} THEN Len(events) + 1
        ELSE CHOOSE j \in later : \A h \in later : j <= h

\* what the program did for the k-th line read
Seg(k) == SubSeq(events, ReadPos(k) + 1, SegEnd(ReadPos(k)) - 1)

\* no line is being processed
Quiescent == pc \in {"getline", "return", "exited"}

\* after the k-th line the program went back to read the next one
Continues(k) == SegEnd(ReadPos(k)) <= Len(events) \/ pc = "getline"

ExitedWith(code) == pc = "exited" /\ exit_status = <<code>>

InitSucceeded ==
    \E i \in EventsOf("init") : events[i].ret # 0

\* a field in fixed notation with exactly 8 fractional digits
IsFixed8(f) ==
    LET g == IF f # <<>> /\ f[1] = "-" THEN Tail(f) ELSE f
    IN  /\ Len(g) >= 10
        /\ g[Len(g) - 8] = "."
        /\ \A i \in 1..Len(g) : i # Len(g) - 8 => IsDigit(g[i])

IsResultLine(t) ==
    \E c \in 1..Len(t) :
        /\ t[c] = ","
        /\ IsFixed8(SubSeq(t, 1, c - 1))
        /\ IsFixed8(SubSeq(t, c + 1, Len(t)))

OutEvent(text) == [ev |-> "out", text |-> text]

\* ------------------------------------------------------------------------
\* Properties
\* ------------------------------------------------------------------------
ReadyCount == Cardinality({i \in 1..Len(stdout) : stdout[i] = READY_LINE})

\* C1: standard output carries at most one READY line, exactly one once
\* startup has succeeded; READY is the first line of standard output, it is
\* there only if NaviConInit has returned non-zero, and it is there before
\* the first line of standard input is read.
C1_ReadyOnceAndFirst ==
    /\ ReadyCount <= 1
    /\ stdout # <<>> =>
         /\ stdout[1] = READY_LINE
         /\ InitSucceeded
         /\ init_ret # 0
    /\ (nRead > 0 \/ EventsOf("read") # {} \/ EventsOf("eof") # {}) =>
         /\ stdout # <<>>
         /\ stdout[1] = READY_LINE
    /\ (pc \in {"getline", "trim", "dispatch", "lon", "lat", "emit", "return"}
        \/ ExitedWith(EXIT_SUCCESS)) => ReadyCount = 1

\* C1 witness: a run that started, answered a line after READY and ended
C1_Witness ==
    /\ ExitedWith(EXIT_SUCCESS)
    /\ Len(stdout) >= 2
    /\ stdout[1] = READY_LINE
    /\ nRead >= 1

\* the ways startup fails, each read once its check has been passed by
StartupFailure ==
    \/ pc # "main" /\ argc # 2
    \/ pc \notin {"main", "reg"} /\ rc # ERROR_SUCCESS
    \/ pc \notin {"main", "reg", "load"} /\ ~hGetProcIDDLL
    \/ pc \notin {"main", "reg", "load", "getproc"}
         /\ (~f_init \/ ~f_xy2lon \/ ~f_xy2lat)
    \/ \E i \in EventsOf("init") : events[i].ret = 0

\* C2: whenever startup has failed (wrong argument count, no installation
\* directory, library not loaded, an entry point missing, NaviConInit
\* returning 0) the process has exited with a non-zero status, nothing was
\* written to standard output, no line was read and no conversion function
\* was called.
C2_StartupFailureExits ==
    StartupFailure =>
        /\ pc = "exited"
        /\ Len(exit_status) = 1
        /\ exit_status[1] # 0
        /\ stdout = <<>> /\ cout_buf = <<>>
        /\ stdin = input
        /\ EventsOf("read") = {} /\ EventsOf("eof") = {}
        /\ ConversionCalls = {}
        /\ stderr # <<>>

\* C2 witness: NaviConInit rejected the terrain while input was waiting
C2_Witness ==
    /\ pc = "exited"
    /\ \E i \in EventsOf("init") : events[i].ret = 0
    /\ \E k \in 1..Len(input) : ExtractXY(input[k]).ok

\* the lines that call for a response: neither blank nor EXIT
Answered(l) == ~IsBlank(l) /\ ~IsExit(l)

\* standard output after a successful start, in a state where no line is
\* being processed
SessionAtRest ==
    pc \in {"getline", "return"} \/ ExitedWith(EXIT_SUCCESS)

\* C3 as stated: once the session has ended, standard output holds, after
\* READY, exactly one response line for every non-blank line of the input.
C3_AsStated ==
    ExitedWith(EXIT_SUCCESS) =>
        Len(stdout) = 1 + Cardinality({k \in 1..Len(input) : ~IsBlank(input[k])})

\* C3 amended: after READY, standard output holds exactly one response line
\* per line read that is neither blank nor EXIT, each a "lon,lat" result
\* with 8 fractional digits or the ERROR line; the session reads up to the
\* first EXIT line (or the end of input), so EXIT and the lines after it
\* get no response.
C3_OneResponsePerAnsweredLine ==
    SessionAtRest =>
        /\ Len(stdout) = 1 + Cardinality({k \in 1..nRead : Answered(input[k])})
        /\ \A i \in 2..Len(stdout) :
               stdout[i] = ERROR_LINE \/ IsResultLine(stdout[i])
        /\ \A k \in 1..nRead : Answered(input[k]) =>
               /\ Cardinality({i \in EventsOf("out") :
                      ReadPos(k) < i /\ i < SegEnd(ReadPos(k))}) = 1
        /\ pc = "exited" => nRead = FirstExitOrLen(input)

\* C3 witness: a session that ended with a result line and an ERROR line
C3_Witness ==
    /\ ExitedWith(EXIT_SUCCESS)
    /\ \E i \in 2..Len(stdout) : stdout[i] = ERROR_LINE
    /\ \E i \in 2..Len(stdout) : IsResultLine(stdout[i])

\* C4: once a line that trims to EXIT has been read, nothing more is read,
\* converted or written: the EXIT line is the last event of the run, the
\* lines after it stay on standard input, and the process exits with
\* status EXIT_SUCCESS.
C4_ExitEndsSession ==
    \A k \in 1..nRead : IsExit(input[k]) =>
        /\ k = nRead
        /\ ReadPos(k) = Len(events)
        /\ events[ReadPos(k)].text = input[k]
        /\ pc \in {"trim", "dispatch", "return", "exited"}
        /\ stdin = SubSeq(input, k + 1, Len(input))
        /\ Len(stdout) = 1 + Cardinality({j \in 1..(k - 1) : Answered(input[j])})
        /\ cout_buf = <<>>
        /\ pc = "exited" => exit_status = <<EXIT_SUCCESS>>

\* C4 witness: EXIT wrapped in white space ended the session with a
\* convertible line still unread
C4_Witness ==
    /\ ExitedWith(EXIT_SUCCESS)
    /\ nRead >= 1
    /\ input[nRead] = L_EXIT_WS
    /\ nRead < Len(input)
    /\ ExtractXY(input[nRead + 1]).ok

\* C5 as stated: a line that has fewer or more than two numeric tokens, or
\* a token that is not numeric, gets the ERROR line, no conversion call,
\* and the session continues.
C5_AsStated ==
    Quiescent =>
        \A k \in 1..nRead :
            (/\ Answered(input[k])
             /\ \/ Len(Tokens(input[k])) # 2
                \/ \E t \in 1..Len(Tokens(input[k])) :
                       ~NumericToken(Tokens(input[k])[t]))
            => /\ Seg(k) = <<OutEvent(ERROR_LINE)>>
               /\ Continues(k)

\* the lines from which two numbers cannot be extracted, by their tokens:
\* no token, a first token that does not start with a number, or a first
\* token that is a number followed by nothing or by a token that does not
\* start with a number
Malformed(l) ==
    LET ts == Tokens(l)
    IN  \/ Len(ts) = 0
        \/ ~NumericPrefix(ts[1])
        \/ NumericToken(ts[1]) /\ (Len(ts) = 1 \/ ~NumericPrefix(ts[2]))

\* C5 amended: a line, neither blank nor EXIT, whose first token does not
\* start with a parseable number, or whose first token is a number followed
\* by no token or by one that does not start with a parseable number, gets
\* exactly one ERROR line, no conversion call, and the session goes on to
\* the next line.
C5_MalformedGetsError ==
    Quiescent =>
        \A k \in 1..nRead :
            (Answered(input[k]) /\ Malformed(input[k]))
            => /\ Seg(k) = <<OutEvent(ERROR_LINE)>>
               /\ Continues(k)
               /\ stdout[1 + Cardinality({j \in 1..k : Answered(input[j])})]
                    = ERROR_LINE

\* C5 witness: a one-number line got its ERROR line and the next line was read
C5_Witness ==
    /\ nRead = 2
    /\ input[1] = L_ONE
    /\ Seg(1) = <<OutEvent(ERROR_LINE)>>
    /\ stdout = <<READY_LINE, ERROR_LINE>>

\* position on standard output of the response to the k-th line read
ResponsePos(k) == 1 + Cardinality({j \in 1..k : Answered(input[j])})

\* the path NaviConInit is given for the scenery name AA3
AA3_TRN ==
    <<"C", ":", "\\", "C", "3", "\\", "L", "a", "n", "d", "s", "c", "a", "p",
      "e", "s", "\\", "A", "A", "3", "\\", "A", "A", "3", ".", "t", "r", "n">>

\* the terrain of the run, from the command line
ExpectedTrn == IF argv1 = A_NAME THEN AA3_TRN ELSE argv1

\* C6: for every line read from which two numbers x, y are extracted, the
\* program calls XYToLon(x, y), then XYToLat(x, y), writes one line made of
\* the two returned values in that order, separated by a comma, and goes on
\* to read the next line.
C6_AcceptedLineConverted ==
    Quiescent =>
        \A k \in 1..nRead :
            (Answered(input[k]) /\ ExtractXY(input[k]).ok) =>
                LET xy == ExtractXY(input[k])
                    lonv == XYToLon(ExpectedTrn, xy.x, xy.y)
                    latv == XYToLat(ExpectedTrn, xy.x, xy.y)
                    text == FormatFixed(lonv) \o <<",">> \o FormatFixed(latv)
                IN  /\ Seg(k) =
                         << [ev |-> "lon", x |-> xy.x, y |-> xy.y, ret |-> lonv],
                            [ev |-> "lat", x |-> xy.x, y |-> xy.y, ret |-> latv],
                            OutEvent(text) >>
                    /\ stdout[ResponsePos(k)] = text
                    /\ Continues(k)
                    /\ input[k] = L_XY_SCI =>
                         xy.x = <<-15, -1>> /\ xy.y = <<2, 1>>
                    /\ input[k] \in {L_XY, L_XYZ, L_XY_JUNK} =>
                         xy.x = <<1, 0>> /\ xy.y = <<2, 0>>

\* C6 witness: "-1.5<TAB>2e1 " was converted, its longitude and latitude
\* differ, and the next line was read
C6_Witness ==
    /\ nRead = 2
    /\ input[1] = L_XY_SCI
    /\ Len(Seg(1)) = 3
    /\ Seg(1)[1].ret # Seg(1)[2].ret
    /\ IsResultLine(stdout[2])

\* C7: a blank line read (empty, or only space, tab, CR, LF) produces no
\* output line and no conversion call, and the program goes on to read the
\* next line.
C7_BlankLineIgnored ==
    Quiescent =>
        \A k \in 1..nRead : IsBlank(input[k]) =>
            /\ Seg(k) = <<>>
            /\ Continues(k)
            /\ Len(stdout) >= ResponsePos(k)
            /\ ResponsePos(k) = (IF k = 1 THEN 1 ELSE ResponsePos(k - 1))

\* C7 witness: a line of white space was skipped and the line after it read
C7_Witness ==
    /\ nRead = 2
    /\ input[1] = L_BLANK
    /\ pc = "trim"
    /\ stdout = <<READY_LINE>>

\* the response the protocol gives to an answered line
Response(l) ==
    LET xy == ExtractXY(l)
    IN  IF xy.ok
        THEN FormatFixed(XYToLon(ExpectedTrn, xy.x, xy.y)) \o <<",">>
             \o FormatFixed(XYToLat(ExpectedTrn, xy.x, xy.y))
        ELSE ERROR_LINE

RECURSIVE Responses(_)
Responses(ls) ==
    IF ls = <<>> THEN <<>>
    ELSE (IF Answered(Head(ls)) THEN <<Response(Head(ls))>> ELSE <<>>)
         \o Responses(Tail(ls))

IsPrefix(a, b) == Len(a) <= Len(b) /\ SubSeq(b, 1, Len(a)) = a

\* C8: standard output after READY is the sequence of the responses to the
\* answered lines, in the order in which the lines were read: complete when
\* no line is being processed, and a prefix missing at most the response to
\* the line being processed otherwise.
C8_ResponsesInOrder ==
    stdout # <<>> =>
        /\ Quiescent => stdout = <<READY_LINE>> \o Responses(Consumed)
        /\ ~Quiescent =>
             /\ IsPrefix(stdout, <<READY_LINE>> \o Responses(Consumed))
             /\ nRead >= 1
             /\ stdout = <<READY_LINE>>
                         \o Responses(SubSeq(input, 1, nRead - 1))

\* C8 witness: two answered lines with different responses, both written
C8_Witness ==
    /\ ExitedWith(EXIT_SUCCESS)
    /\ Len(stdout) = 3
    /\ stdout[2] # stdout[3]
    /\ IsResultLine(stdout[2])
    /\ nRead = 2

\* the session has ended the way the protocol says it ends
EndedAtExitOrEof ==
    /\ nRead = FirstExitOrLen(input)
    /\ \/ nRead >= 1 /\ IsExit(input[nRead])
               /\ EventsOf("eof") = {} /\ ReadPos(nRead) = Len(events)
       \/ stdin = <<>> /\ EventsOf("eof") = {Len(events)}
               /\ \A k \in 1..nRead : ~IsExit(input[k])

\* C9: once READY has been written the process eventually exits with
\* status EXIT_SUCCESS; the loop is left only at the first EXIT line or at
\* the end of input, with every line before that point read, so no blank,
\* malformed or valid line ends the session.
C9_SessionTerminates ==
    /\ (stdout # <<>>) ~> ExitedWith(EXIT_SUCCESS)
    /\ [](stdout # <<>> /\ pc \in {"return", "exited"} => EndedAtExitOrEof)
    /\ [](stdout # <<>> /\ pc = "exited" => exit_status = <<EXIT_SUCCESS>>)

\* C9 witness: end of input reached after a blank, then a malformed line,
\* with no EXIT line
C9_Witness ==
    /\ ExitedWith(EXIT_SUCCESS)
    /\ input = <<L_BLANK, L_WORDS>>
    /\ stdin = <<>>
    /\ events[Len(events)].ev = "eof"

\* C10: NaviConInit is called at most once, before READY and before any
\* read; a conversion function is called only after a call of NaviConInit
\* that returned non-zero; while the session loop runs exactly one call has
\* been made; and the path it was given is the terrain of the command line,
\* still held unchanged by trn_name and by the library.
C10_InitOnceBeforeConversions ==
    /\ Cardinality(EventsOf("init")) <= 1
    /\ \A c \in ConversionCalls :
           \E i \in EventsOf("init") : i < c /\ events[i].ret # 0
    /\ \A i \in EventsOf("init") :
           /\ i = 1
           /\ events[i].arg = ExpectedTrn
           /\ trn_name = events[i].arg
           /\ events[i].ret = init_ret
           /\ events[i].ret # 0 => navicon = events[i].arg
    /\ (pc \in {"ready", "getline", "trim", "dispatch", "lon", "lat", "emit",
                "return"} \/ stdout # <<>>)
         => Cardinality(EventsOf("init")) = 1 /\ InitSucceeded

\* C10 witness: a conversion was made for the scenery name AA3 and the
\* process ended
C10_Witness ==
    /\ pc = "exited"
    /\ argv1 = A_NAME
    /\ EventsOf("lat") # {}
    /\ navicon = AA3_TRN

\* ------------------------------------------------------------------------
\* Properties of a session (SessionSpec)
\* ------------------------------------------------------------------------
\* the k-th line read has been dealt with: the program went on to read, or
\* left the loop
Done(k) == k < nRead \/ Quiescent

\* what is asked of each line of the two corpora, worked out once: the two
\* numbers extracted from it, whether its first two tokens are numbers
\* followed by further tokens, and the values of those two tokens
LeadingTokens(l) ==
    LET ts == Tokens(l)
        two == Len(ts) >= 2 /\ NumericToken(ts[1]) /\ NumericToken(ts[2])
    IN  [more |-> two /\ Len(ts) >= 3,
         x |-> IF two THEN ExtractFloat(ts[1], 1).val ELSE <<0, 0>>,
         y |-> IF two THEN ExtractFloat(ts[2], 1).val ELSE <<0, 0>>]

LineXY == [l \in Corpus \cup SessionCorpus |-> ExtractXY(l)]
LineLead == [l \in Corpus \cup SessionCorpus |-> LeadingTokens(l)]

XYOf(l) == IF l \in DOMAIN LineXY THEN LineXY[l] ELSE ExtractXY(l)
LeadOf(l) == IF l \in DOMAIN LineLead THEN LineLead[l] ELSE LeadingTokens(l)

\* the i-th and the j-th line read carry the same pair of numbers
SameRequest(i, j) ==
    LET a == XYOf(input[i])
        b == XYOf(input[j])
    IN  /\ Answered(input[i]) /\ Answered(input[j])
        /\ a.ok /\ b.ok
        /\ a.x = b.x /\ a.y = b.y

\* C11: two lines of one session that carry the same pair of numbers, with
\* whatever lines read between them, lead to the same library calls with
\* the same results and to identical lines on standard output.
C11_SameRequestSameLine ==
    \A i \in 1..nRead : \A j \in (i + 1)..nRead :
        (SameRequest(i, j) /\ Done(j))
        => /\ Seg(i) = Seg(j)
           /\ stdout[ResponsePos(i)] = stdout[ResponsePos(j)]

\* C11 witness: the same coordinates, spelt differently, were asked before
\* and after another conversion and got the same line, the conversion
\* between them another one
C11_Witness ==
    /\ pc = "getline"
    /\ Consumed = <<L_XY, L_XY_SCI, L_XY_ALT>>
    /\ Len(stdout) = 4
    /\ IsResultLine(stdout[2])
    /\ stdout[4] = stdout[2]
    /\ stdout[3] # stdout[2]

\* a line answered with the ERROR line: neither blank nor EXIT, and two
\* numbers cannot be extracted from it
Rejected(l) == Answered(l) /\ ~XYOf(l).ok

NotRejected(l) == ~Rejected(l)
NotErrorLine(t) == t # ERROR_LINE

\* the lines of ls that are not rejected, in their order
WithoutRejected(ls) == SelectSeq(ls, NotRejected)
\* the lines of out that are not ERROR lines, in their order
WithoutErrors(out) == SelectSeq(out, NotErrorLine)

\* the input up to its first EXIT line, the whole input when it has none
UpToExit(inp) == SubSeq(inp, 1, FirstExitOrLen(inp))

\* C12: standard output without its ERROR lines is READY followed by the
\* responses to the lines read that are not rejected, in their order, and
\* has one ERROR line for each rejected line read; at the end of a session
\* this covers the whole input up to the first EXIT.  Two inputs that
\* differ only by rejected lines, inserted anywhere, are the same input
\* without their rejected lines, so their outputs differ by the ERROR lines
\* only.
C12_RejectedLinesIsolated ==
    (Quiescent /\ stdout # <<>>) =>
        /\ WithoutErrors(stdout)
             = <<READY_LINE>> \o Responses(WithoutRejected(Consumed))
        /\ Len(stdout) - Len(WithoutErrors(stdout))
             = Len(Consumed) - Len(WithoutRejected(Consumed))
        /\ ExitedWith(EXIT_SUCCESS) =>
             /\ WithoutErrors(stdout)
                  = <<READY_LINE>> \o Responses(WithoutRejected(UpToExit(input)))
             /\ Len(stdout) - Len(WithoutErrors(stdout))
                  = Len(UpToExit(input)) - Len(WithoutRejected(UpToExit(input)))

\* C12 witness: a session ended with a rejected line between two
\* conversions, each answered as in the session without the rejected line
C12_Witness ==
    /\ ExitedWith(EXIT_SUCCESS)
    /\ input = <<L_XY, L_EXIT_NOW, L_XY_SCI>>
    /\ stdout = <<READY_LINE, Response(L_XY), ERROR_LINE, Response(L_XY_SCI)>>
    /\ WithoutErrors(stdout) = <<READY_LINE>> \o Responses(<<L_XY, L_XY_SCI>>)

\* C13: a line whose first two white-space separated tokens are numbers and
\* which has further tokens is converted from the first two: one call of
\* XYToLon and one of XYToLat with the values of those tokens, one result
\* line, and no ERROR line.
C13_TrailingTokensIgnored ==
    \A k \in 1..nRead :
        LET lead == LeadOf(input[k])
        IN  (Done(k) /\ lead.more)
            => LET xv == lead.x
                   yv == lead.y
                   lonv == XYToLon(ExpectedTrn, xv, yv)
                   latv == XYToLat(ExpectedTrn, xv, yv)
                   text == FormatFixed(lonv) \o <<",">> \o FormatFixed(latv)
               IN  /\ Seg(k) =
                        << [ev |-> "lon", x |-> xv, y |-> yv, ret |-> lonv],
                           [ev |-> "lat", x |-> xv, y |-> yv, ret |-> latv],
                           OutEvent(text) >>
                   /\ stdout[ResponsePos(k)] = text
                   /\ text # ERROR_LINE

\* C13 witness: "1 2 EXIT" was answered with the result line of "1 2" and
\* the session went on
C13_Witness ==
    /\ pc = "getline"
    /\ Consumed = <<L_XY, L_XY_EXIT>>
    /\ Tokens(L_XY_EXIT) = <<<<"1">>, <<"2">>, EXIT_TOKEN>>
    /\ Len(stdout) = 3
    /\ IsResultLine(stdout[3])
    /\ stdout[3] = stdout[2]

IsOutEvent(e) == e.ev = "out"

\* the lines the program has written to std::cout, in order
OutTexts ==
    LET outs == SelectSeq(events, IsOutEvent)
    IN  [i \in 1..Len(outs) |-> outs[i].text]

\* C14: whenever the program is about to read a line from standard input,
\* nothing written is left in the buffer of std::cout: every line written so
\* far has reached standard output, and these are READY and one response
\* for each answered line read before, so that the response to a line is
\* out before the next line is read.
C14_FlushedBeforeRead ==
    (pc = "getline") =>
        /\ cout_buf = <<>>
        /\ stdout = OutTexts
        /\ Len(stdout) = 1 + Cardinality({k \in 1..nRead : Answered(input[k])})

\* C14 witness: two lines were answered, the second response is on standard
\* output and the program is about to read the third line
C14_Witness ==
    /\ pc = "getline"
    /\ nRead = 2
    /\ stdin # <<>>
    /\ Answered(input[1]) /\ Answered(input[2])
    /\ Len(stdout) = 3
    /\ events[Len(events)] = OutEvent(stdout[3])
    /\ cout_buf = <<>>

\* the line holds the exit word, in whatever case, somewhere
ContainsExitWord(l) ==
    \E i \in 1..(Len(l) - 3) : Upper(SubSeq(l, i, i + 3)) = EXIT_TOKEN

\* the first token of the line starts with the exit word, in whatever case
BeginsWithExitWord(l) ==
    LET ts == Tokens(l)
    IN  /\ Len(ts) >= 1
        /\ Len(ts[1]) >= 4
        /\ Upper(SubSeq(ts[1], 1, 4)) = EXIT_TOKEN

ExitWordLines ==
    [l \in Corpus \cup SessionCorpus |->
        [contains |-> ContainsExitWord(l), begins |-> BeginsWithExitWord(l),
         exact |-> IsExit(l), blank |-> IsBlank(l)]]

ExitWordIn(l) ==
    IF l \in DOMAIN ExitWordLines THEN ExitWordLines[l]
    ELSE [contains |-> ContainsExitWord(l), begins |-> BeginsWithExitWord(l),
          exact |-> IsExit(l), blank |-> IsBlank(l)]

\* C15 as stated: every line read that holds the exit word, is not blank
\* and is not exactly EXIT once trimmed, is answered with exactly one ERROR
\* line and does not end the session.  "1 2 EXIT" is converted.
C15_AsStated ==
    \A k \in 1..nRead :
        LET w == ExitWordIn(input[k])
        IN  (Done(k) /\ w.contains /\ ~w.blank /\ ~w.exact)
            => /\ Seg(k) = <<OutEvent(ERROR_LINE)>>
               /\ Continues(k)

\* C15 amended: a line ends the session only if it is exactly EXIT once
\* trimmed.  Any other line holding the exit word, in whatever case, does
\* not end the session: it is answered with exactly one ERROR line when it
\* begins with the word ("exit", "Exit", "EXIT now", "EXIT EXIT"), and with
\* the one response of its two numbers when the word follows them
\* ("1 2 EXIT").
C15_ExitOnlyExact ==
    \A k \in 1..nRead :
        LET w == ExitWordIn(input[k])
            seg == Seg(k)
        IN  Done(k) =>
                /\ ~w.exact => Continues(k)
                /\ (w.begins /\ ~w.exact)
                     => /\ seg = <<OutEvent(ERROR_LINE)>>
                        /\ stdout[ResponsePos(k)] = ERROR_LINE
                /\ (w.contains /\ ~w.exact)
                     => /\ Len(seg) >= 1
                        /\ seg[Len(seg)] = OutEvent(Response(input[k]))
                        /\ Len(SelectSeq(seg, IsOutEvent)) = 1

\* C15 witness: "Exit", "EXIT now" and "EXIT EXIT" were read, each got an
\* ERROR line, and the program is about to read again
C15_Witness ==
    /\ pc = "getline"
    /\ Consumed = <<L_EXIT_CAP, L_EXIT_NOW, L_EXIT_EXIT>>
    /\ stdout = <<READY_LINE, ERROR_LINE, ERROR_LINE, ERROR_LINE>>

\* the non-blank lines of inp that come before its first EXIT line
CountedLines(inp) ==
    {k \in 1..Len(inp) : ~IsBlank(inp[k]) /\ \A j \in 1..k : ~IsExit(inp[j])}

\* C16: when a session that printed READY has ended, standard output holds,
\* after READY, as many lines as the input has non-blank lines before its
\* first EXIT line (before its end when it has none); the lines after the
\* first EXIT were not read.
C16_OutputCountAtEnd ==
    ExitedWith(EXIT_SUCCESS) =>
        /\ stdout[1] = READY_LINE
        /\ Len(stdout) - 1 = Cardinality(CountedLines(input))
        /\ nRead = FirstExitOrLen(input)

\* C16 witness: a session ended by EXIT between two conversions: one line
\* after READY, the last input line unread
C16_Witness ==
    /\ ExitedWith(EXIT_SUCCESS)
    /\ input = <<L_XY, L_EXIT, L_XY_SCI>>
    /\ stdin = <<L_XY_SCI>>
    /\ Len(stdout) = 2
    /\ IsResultLine(stdout[2])

IsCallEvent(e) == e.ev \in {"lon", "lat"}

\* the library function called and its arguments
CallOf(e) == <<e.ev, e.x, e.y>>

\* the conversion calls made for the k-th line read, in order
CallsFor(k) ==
    LET cs == SelectSeq(Seg(k), IsCallEvent)
    IN  [i \in 1..Len(cs) |-> CallOf(cs[i])]

\* the k-th line read is one from which two numbers are extracted
ConvertLine(k) == Answered(input[k]) /\ XYOf(input[k]).ok

\* C17: every call of XYToLon or XYToLat is made after a line was read and
\* before end-of-input is met.  Between the read of a line from which two
\* numbers are extracted and the next read, the calls are XYToLon(x, y)
\* then XYToLat(x, y), once each, with the numbers of that line; after the
\* read of a blank, EXIT or rejected line there is no call, so that none
\* follows the EXIT that ends the session.
C17_CallsOnlyForConvertLines ==
    /\ \A i \in ConversionCalls :
          /\ \E r \in EventsOf("read") : r < i
          /\ \A e \in EventsOf("eof") : i < e
    /\ \A k \in 1..nRead :
          LET xy == XYOf(input[k])
              both == << <<"lon", xy.x, xy.y>>, <<"lat", xy.x, xy.y>> >>
              calls == CallsFor(k)
          IN  IF ConvertLine(k)
              THEN /\ IsPrefix(calls, both)
                   /\ Done(k) => calls = both
              ELSE calls = <<>>
    /\ pc \in {"return", "exited"} =>
          Cardinality(EventsOf("lon")) = Cardinality(EventsOf("lat"))

\* C17 witness: a blank line, "-1.5<TAB>2e1 " and "EXIT now" were read; the
\* only calls are the two made for the second line
C17_Witness ==
    /\ pc = "getline"
    /\ Consumed = <<L_BLANK, L_XY_SCI, L_EXIT_NOW>>
    /\ Cardinality(ConversionCalls) = 2
    /\ CallsFor(2) = << <<"lon", <<-15, -1>>, <<2, 1>> >>,
                        <<"lat", <<-15, -1>>, <<2, 1>> >> >>
    /\ CallsFor(1) = <<>> /\ CallsFor(3) = <<>>

\* ------------------------------------------------------------------------
\* Properties of the entry points (Spec)
\* ------------------------------------------------------------------------
\* GetProcAddress has been called for the three entry points
Resolved ==
    /\ pc \notin {"main", "reg", "load", "getproc"}
    /\ argc = 2 /\ rc = ERROR_SUCCESS /\ hGetProcIDDLL

MissingEntryPoint == Resolved /\ (~f_init \/ ~f_xy2lon \/ ~f_xy2lat)

POINTERS_MESSAGE == <<"ERROR: Could not get NaviCon.dll function pointers">>

\* C18: no entry point is called through a null pointer: the process never
\* ends by an access violation, and whenever NaviConInit or a conversion
\* function has been called, or is about to be, the three pointers are
\* non-null.  When GetProcAddress did not find one of the three, the
\* process has exited with EXIT_FAILURE and the pointers message, without
\* having called NaviConInit or a conversion function and without READY.
C18_EntryPointsCheckedEagerly ==
    /\ ~ExitedWith(STATUS_ACCESS_VIOLATION)
    /\ (\/ EventsOf("init") # {}
        \/ ConversionCalls # {}
        \/ pc \in {"trn", "init", "ready", "getline", "trim", "dispatch",
                   "lon", "lat", "emit", "return"})
         => (f_init /\ f_xy2lon /\ f_xy2lat)
    /\ MissingEntryPoint =>
         /\ ExitedWith(EXIT_FAILURE)
         /\ stderr = <<POINTERS_MESSAGE>>
         /\ EventsOf("init") = {}
         /\ ConversionCalls = {}
         /\ stdout = <<>>
         /\ stdin = input

\* C18 witness: the initializer and XYToLon were found, XYToLat was not;
\* the process exited before NaviConInit although a line to convert waited
C18_Witness ==
    /\ ExitedWith(EXIT_FAILURE)
    /\ f_init /\ f_xy2lon /\ ~f_xy2lat
    /\ EventsOf("init") = {}
    /\ stderr = <<POINTERS_MESSAGE>>
    /\ input = <<L_XY>>

====
